---- MODULE Spec2Model ----
(***************************************************************************)
(* A model of preprocessor-cocohue.py, the CoCoHue build preprocessor.     *)
(*                                                                         *)
(* Text is modelled as a sequence of tokens: a line of a file is a         *)
(* sequence such as <<"#IF", " ", "_", "_", "DNI_PREFIX", "_", "_", ...>>. *)
(* The underscore, the blank and the newline are tokens of their own, so   *)
(* that str.strip, str.startswith, str.split and str.replace are computed  *)
(* position by position as Python computes them; a run of other            *)
(* characters (a word, a constant's body, a library name) is one token.    *)
(* A file is a sequence of lines.                                          *)
(***************************************************************************)
EXTENDS Naturals, Sequences, FiniteSets, TLC

VARIABLES
    argv,               \* sys.argv of the run
    pc,                 \* control location of the program
    target,             \* the target handed to main (tgtVal)
    totalProcessed,     \* the global counter
    phase,              \* which loop called processFile: "apps", "drivers", "direct"
    idx,                \* position of that loop in its manifest list (1-based)
    stdout,             \* what has been printed
    fsSrc,              \* source files on disk: path -> lines
    fsLib,              \* library files on disk: path -> lines
    disk,               \* destination files on disk: path -> chunks written
    sourceFile,         \* processFile's parameters and locals
    destFile,
    preprocessLibrary,
    libNamesToInclude,
    inIf,
    skipLines,
    linePos,            \* next line of ogFile the for loop will read
    libIdx,             \* position of the phase-two loop in libNamesToInclude
    libPos,             \* next line of libFile the for loop will read
    openFiles,          \* paths with an open handle
    exc,                \* the uncaught exception that ended the run, or "none"
    emitted,            \* history: the chunks written by the current processFile call
    recordedAt,         \* history: source line numbers whose #include was recorded
    ioLog,              \* history: file operations done, as <<operation, path>>
    completed,          \* history: destination -> content when its call returned
    pcIn,               \* the line handed to processConstants
    pcOut               \* what processConstants returned, or NoResult

vars ==
    <<argv, pc, target, totalProcessed, phase, idx, stdout, fsSrc, fsLib, disk,
      sourceFile, destFile, preprocessLibrary, libNamesToInclude, inIf, skipLines,
      linePos, libIdx, libPos, openFiles, exc, emitted, recordedAt, ioLog,
      completed, pcIn, pcOut>>

-----------------------------------------------------------------------------
(* Bounds of the model.                                                    *)

\* Longest source file drawn for a direct processFile call, in lines.
MaxLines == 3

\* Longest library file drawn for a direct processFile call, in lines.
MaxLibLines == 1

\* Longest line drawn for processConstants, in pieces of PCPieces.
MaxPieces == 4

-----------------------------------------------------------------------------
(* Python's str methods on token sequences.                                *)

IsSpace(t) == t \in {" ", "\n", "\t"}

RECURSIVE LStrip(_)
LStrip(s) ==
    IF s # <<>> /\ IsSpace(Head(s)) THEN LStrip(Tail(s)) ELSE s

RECURSIVE RStrip(_)
RStrip(s) ==
    IF s # <<>> /\ IsSpace(s[Len(s)]) THEN RStrip(SubSeq(s, 1, Len(s) - 1)) ELSE s

\* str.strip(): leading and trailing whitespace removed.
Strip(s) == RStrip(LStrip(s))

\* str.startswith(p)
StartsWith(s, p) ==
    Len(p) <= Len(s) /\ SubSeq(s, 1, Len(p)) = p

\* sub occurs in s at position i
OccursAt(s, sub, i) ==
    i >= 1 /\ i + Len(sub) - 1 <= Len(s) /\ SubSeq(s, i, i + Len(sub) - 1) = sub

\* the "in" operator on strings
Contains(s, sub) ==
    \E i \in 1..(Len(s) + 1) : OccursAt(s, sub, i)

\* str.replace(old, new): every non-overlapping occurrence, leftmost first.
RECURSIVE ReplaceFrom(_, _, _)
ReplaceFrom(s, old, new) ==
    IF Len(s) < Len(old) \/ old = <<>> THEN s
    ELSE IF OccursAt(s, old, 1)
         THEN new \o ReplaceFrom(SubSeq(s, Len(old) + 1, Len(s)), old, new)
         ELSE <<Head(s)>> \o ReplaceFrom(Tail(s), old, new)

\* str.replace(old, new, 1): the first occurrence only.
RECURSIVE ReplaceFirst(_, _, _)
ReplaceFirst(s, old, new) ==
    IF Len(s) < Len(old) \/ old = <<>> THEN s
    ELSE IF OccursAt(s, old, 1)
         THEN new \o SubSeq(s, Len(old) + 1, Len(s))
         ELSE <<Head(s)>> \o ReplaceFirst(Tail(s), old, new)

Replace(s, old, new) == ReplaceFrom(s, old, new)

\* str.split(sep) for a one-token separator: the parts between the separators.
RECURSIVE SplitAcc(_, _, _)
SplitAcc(s, sep, cur) ==
    IF s = <<>> THEN <<cur>>
    ELSE IF Head(s) = sep
         THEN <<cur>> \o SplitAcc(Tail(s), sep, <<>>)
         ELSE SplitAcc(Tail(s), sep, Append(cur, Head(s)))

Split(s, sep) == SplitAcc(s, sep, <<>>)

Range(f) == {f[i] : i \in DOMAIN f}

-----------------------------------------------------------------------------
(* The program's tables.                                                   *)

COCOHUE == "CoCoHue - Hue Bridge Integration"

ALL_TARGETS == <<COCOHUE>>

ALL_TARGET_NAMES == (<<"COCOHUE">> :> COCOHUE)

driverFiles ==
    << "cocohue-bridge-driver.groovy",
       "cocohue-button-driver.groovy",
       "cocohue-ct-bulb-driver.groovy",
       "cocohue-dimmable-bulb-driver.groovy",
       "cocohue-group-driver.groovy",
       "cocohue-motion-sensor-driver.groovy",
       "cocohue-plug-driver.groovy",
       "cocohue-rgb-bulb-driver.groovy",
       "cocohue-rgbw-bulb-driver.groovy",
       "cocohue-scene-driver.groovy" >>

appFiles == << "cocohue-app.groovy" >>

libraries ==
    (<<"RMoRobert.CoCoHue_Bri_Lib">> :> "cocohue-library-bri.groovy") @@
    (<<"RMoRobert.CoCoHue_Common_Lib">> :> "cocohue-library-common.groovy") @@
    (<<"RMoRobert.CoCoHue_Constants_Lib">> :> "cocohue-library-constants.groovy") @@
    (<<"RMoRobert.CoCoHue_CT_Lib">> :> "cocohue-library-ct.groovy") @@
    (<<"RMoRobert.CoCoHue_Effect_Lib">> :> "cocohue-library-effect.groovy") @@
    (<<"RMoRobert.CoCoHue_Flash_Lib">> :> "cocohue-library-flash.groovy") @@
    (<<"RMoRobert.CoCoHue_HueSat_Lib">> :> "cocohue-library-huesat.groovy")

\* A constant's name: its body between two pairs of underscores.
Key(body) == <<"_", "_", body, "_", "_">>

\* The constants in the order of the dict, each with its value per target.
CONSTANT_ENTRIES ==
    << [key |-> Key("APP_NAME"),
        val |-> (COCOHUE :> <<"CoCoHue - Hue Bridge Integration">>)],
       [key |-> Key("APP_DESCRIPTION"),
        val |-> (COCOHUE :> <<"Community-created Philips Hue integration for Hue Bridge lights and other Hue devices and features">>)],
       [key |-> Key("DOCUMENTATION_LINK"),
        val |-> (COCOHUE :> <<"https://community.hubitat.com/t/release-cocohue-hue-bridge-integration-including-scenes/27978">>)],
       [key |-> Key("NAMESPACE"),
        val |-> (COCOHUE :> <<"RMoRobert">>)],
       [key |-> Key("DNI_PREFIX"),
        val |-> (COCOHUE :> <<"CCH">>)],
       [key |-> Key("DRIVER_NAME_BRIDGE"),
        val |-> (COCOHUE :> <<"CoCoHue Bridge">>)],
       [key |-> Key("DRIVER_NAME_BUTTON"),
        val |-> (COCOHUE :> <<"CoCoHue Button">>)],
       [key |-> Key("DRIVER_NAME_CT_BULB"),
        val |-> (COCOHUE :> <<"CoCoHue CT Bulb">>)],
       [key |-> Key("DRIVER_NAME_DIMMABLE_BULB"),
        val |-> (COCOHUE :> <<"CoCoHue Dimmable Bulb">>)],
       [key |-> Key("DRIVER_NAME_GROUP"),
        val |-> (COCOHUE :> <<"CoCoHue Group">>)],
       [key |-> Key("DRIVER_NAME_MOTION"),
        val |-> (COCOHUE :> <<"CoCoHue Motion Sensor">>)],
       [key |-> Key("DRIVER_NAME_PLUG"),
        val |-> (COCOHUE :> <<"CoCoHue Plug">>)],
       [key |-> Key("DRIVER_NAME_RGBW_BULB"),
        val |-> (COCOHUE :> <<"CoCoHue RGBW Bulb">>)],
       [key |-> Key("DRIVER_NAME_RGB_BULB"),
        val |-> (COCOHUE :> <<"CoCoHue RGB Bulb">>)],
       [key |-> Key("DRIVER_NAME_SCENE"),
        val |-> (COCOHUE :> <<"CoCoHue Scene">>)] >>

\* CONSTANT_KEYS = [key for key in the table]: the keys in dict order.
CONSTANT_KEYS == [i \in DOMAIN CONSTANT_ENTRIES |-> CONSTANT_ENTRIES[i].key]

\* The table as the dict it is: key -> target -> value.
CONSTANTS_TABLE ==
    [k \in Range(CONSTANT_KEYS) |->
        (CHOOSE e \in Range(CONSTANT_ENTRIES) : e.key = k).val]

DRIVER_DIR == "drivers"

APP_DIR == "apps"

LIB_DIR == "libraries"

\* os.path.join: a path is the sequence of its components.
PathJoin(dir, name) == dir \o <<name>>

OUTPUT_DIR == PathJoin(<<"full">>, "cocohue")

-----------------------------------------------------------------------------
(* processConstants                                                        *)

\* The loop "for const in CONSTANT_KEYS: newLine = newLine.replace(...)",
\* from the i-th key on.
RECURSIVE ReplaceKeysFrom(_, _, _)
ReplaceKeysFrom(newLine, tgt, i) ==
    IF i > Len(CONSTANT_KEYS) THEN newLine
    ELSE ReplaceKeysFrom(
            Replace(newLine, CONSTANT_KEYS[i], CONSTANTS_TABLE[CONSTANT_KEYS[i]][tgt]),
            tgt, i + 1)

processConstants(srcLine, tgt) ==
    IF \E i \in DOMAIN CONSTANT_KEYS : Contains(srcLine, CONSTANT_KEYS[i])
    THEN ReplaceKeysFrom(srcLine, tgt, 1)
    ELSE srcLine

-----------------------------------------------------------------------------
(* checkConditionFromLine                                                  *)

\* A Python value: a str, or the ast.Module that ast.parse returns.
PyStr(s) == [type |-> "str", val |-> s]

\* ast.parse(text): a Module node for well-formed text (here: the quotes are
\* balanced), a SyntaxError otherwise.
AstParseOk(text) ==
    Cardinality({i \in DOMAIN text : text[i] = "\""}) % 2 = 0

AstParse(text) == [type |-> "Module", val |-> text]

\* Python's == on two values: objects of different types are unequal.
PyEq(a, b) == a = b

\* The result of a call: the exception it raised ("none" if it returned) and
\* the value it returned.
Returned(v) == [exc |-> "none", val |-> v]

Raised(e) == [exc |-> e, val |-> FALSE]

\* The condition of an #IF line, evaluated.
checkConditionNoKeyError(line, tgt) ==
    LET condition == Strip(Replace(line, <<"#IF", " ">>, <<>>))
        parts == Split(condition, "==")
    IN  IF Len(parts) # 2 THEN Raised("ValueError")
        ELSE LET lhs == Strip(parts[1])
                 rhs == Strip(parts[2])
             IN  IF lhs \notin DOMAIN CONSTANTS_TABLE THEN Returned(FALSE)
                 ELSE IF tgt \notin DOMAIN CONSTANTS_TABLE[lhs] THEN Returned(FALSE)
                 ELSE IF ~AstParseOk(rhs) THEN Raised("SyntaxError")
                 ELSE Returned(PyEq(PyStr(CONSTANTS_TABLE[lhs][tgt]), AstParse(rhs)))

checkConditionFromLine(line, tgt) ==
    LET condition == Strip(Replace(line, <<"#IF", " ">>, <<>>))
        parts == Split(condition, "==")
    IN  IF Len(parts) # 2 THEN Raised("ValueError")
        ELSE LET lhs == Strip(parts[1])
                 rhs == Strip(parts[2])
             IN  IF lhs \notin DOMAIN CONSTANTS_TABLE THEN Raised("KeyError")
                 ELSE IF tgt \notin DOMAIN CONSTANTS_TABLE[lhs] THEN Raised("KeyError")
                 ELSE IF ~AstParseOk(rhs) THEN Raised("SyntaxError")
                 ELSE Returned(PyEq(PyStr(CONSTANTS_TABLE[lhs][tgt]), AstParse(rhs)))

-----------------------------------------------------------------------------
(* The lines that files are made of.                                       *)

L_IncBri == <<"#include", " ", "RMoRobert.CoCoHue_Bri_Lib", "\n">>

L_IncCT == <<"#include", " ", "RMoRobert.CoCoHue_CT_Lib", "\n">>

\* an #include of a library that the registry does not hold
L_IncBad == <<"#include", " ", "RMoRobert.CoCoHue_Missing_Lib", "\n">>

\* #IF __DNI_PREFIX__ == "CCH": the literal is the constant's value
L_IfEq ==
    <<"#IF", " ">> \o Key("DNI_PREFIX") \o <<" ", "==", " ", "\"", "CCH", "\"", "\n">>

\* #IF __DNI_PREFIX__ == "XXX": the literal is not the constant's value
L_IfNe ==
    <<"#IF", " ">> \o Key("DNI_PREFIX") \o <<" ", "==", " ", "\"", "XXX", "\"", "\n">>

\* an #IF on a name that is no constant
L_IfBad ==
    <<"#IF", " ">> \o Key("NO_SUCH") \o <<" ", "==", " ", "\"", "CCH", "\"", "\n">>

\* an indented #ENDIF
L_Endif == <<" ", " ", "#ENDIF", "\n">>

L_Log == <<"log", " ", "\"", "prefix ok", "\"", "\n">>

L_Title == <<"title:", " ", "\"">> \o Key("APP_NAME") \o <<" ", "Setup", "\"", "\n">>

SrcLineSet ==
    {L_IncBri, L_IncCT, L_IncBad, L_IfEq, L_IfNe, L_IfBad, L_Endif, L_Title}

LibLineSet == {L_IfNe, L_IfBad, L_Endif, L_IncCT, L_Title}

SeqsUpTo(S, n) == UNION {[1..k -> S] : k \in 0..n}

\* The source files a direct processFile call is tried on.
SourceSet == SeqsUpTo(SrcLineSet, MaxLines)

\* The contents the library file of RMoRobert.CoCoHue_Bri_Lib may have.
LibContentSet == SeqsUpTo(LibLineSet, MaxLibLines)

\* The source files a run of the whole program finds on disk: one that
\* processes, one that includes an unregistered library after writing a
\* line, one with an #IF on an unknown name.
GoodSource == <<L_IncBri, L_Title, L_IncCT>>

BadLibSource == <<L_Title, L_IncBad>>

BadIfSource == <<L_Title, L_IfBad>>

BatchSourceSet == {GoodSource, BadLibSource, BadIfSource}

\* A file on disk whose content the run has not read yet, and one it has.
Unread == [known |-> FALSE, lines |-> <<>>]

File(lines) == [known |-> TRUE, lines |-> lines]

\* What a destination left by an earlier run holds.
StaleContent == <<[kind |-> "stale", line |-> 0, inc |-> 0, text |-> L_Log]>>

-----------------------------------------------------------------------------
(* processFile: the handling of one line.                                  *)

IsIncludeLine(line) == StartsWith(Strip(line), <<"#include">>)

IsIfLine(line) == StartsWith(Strip(line), <<"#IF", " ">>)

IsEndifNever(line) == FALSE

IsEndifLine(line) == StartsWith(Strip(line), <<"#ENDIF">>)

\* line.split("#include")[-1].strip()
IncludeName(line) ==
    LET parts == Split(line, "#include") IN Strip(parts[Len(parts)])

\* libNamesToInclude.append(libName)
RecordPrepend(names, libName) == <<libName>> \o names

RecordOnce(names, libName) ==
    IF libName \in Range(names) THEN names ELSE Append(names, libName)

RecordNothing(names, libName) == names

RecordInclude(names, libName) == Append(names, libName)

\* the test that guards newFile.write
Emits(st) == ~(st.inIf /\ st.skipLines)

\* The body of "for line in ogFile" (lines 119-132) on one line, from the
\* state st = [inIf, skipLines, names]: the state after it, whether an
\* #include was recorded, the texts written, and the exception raised.
ScanSourceLine(line, st, tgt) ==
    IF IsIncludeLine(line) /\ ~st.skipLines
    THEN [inIf |-> st.inIf, skipLines |-> st.skipLines,
          names |-> RecordInclude(st.names, IncludeName(line)),
          recorded |-> TRUE, out |-> <<>>, exc |-> "none"]
    ELSE IF IsIfLine(line)
    THEN LET c == checkConditionFromLine(line, tgt)
         IN  [inIf |-> TRUE,
              skipLines |-> IF c.exc = "none" THEN ~c.val ELSE st.skipLines,
              names |-> st.names, recorded |-> FALSE, out |-> <<>>, exc |-> c.exc]
    ELSE IF IsEndifLine(line)
    THEN [inIf |-> FALSE, skipLines |-> FALSE,
          names |-> st.names, recorded |-> FALSE, out |-> <<>>, exc |-> "none"]
    ELSE IF Emits(st)
    THEN [inIf |-> st.inIf, skipLines |-> st.skipLines,
          names |-> st.names, recorded |-> FALSE,
          out |-> <<processConstants(line, tgt)>>, exc |-> "none"]
    ELSE [inIf |-> st.inIf, skipLines |-> st.skipLines,
          names |-> st.names, recorded |-> FALSE, out |-> <<>>, exc |-> "none"]

\* The body of "for line in libFile" (lines 145-153) on one line: as above,
\* without the #include branch.
ScanLibLineWithInclude(line, st, tgt) == ScanSourceLine(line, st, tgt)

ScanLibLine(line, st, tgt) ==
    IF IsIfLine(line)
    THEN LET c == checkConditionFromLine(line, tgt)
         IN  [inIf |-> TRUE,
              skipLines |-> IF c.exc = "none" THEN ~c.val ELSE st.skipLines,
              names |-> st.names, recorded |-> FALSE, out |-> <<>>, exc |-> c.exc]
    ELSE IF IsEndifLine(line)
    THEN [inIf |-> FALSE, skipLines |-> FALSE,
          names |-> st.names, recorded |-> FALSE, out |-> <<>>, exc |-> "none"]
    ELSE IF Emits(st)
    THEN [inIf |-> st.inIf, skipLines |-> st.skipLines,
          names |-> st.names, recorded |-> FALSE,
          out |-> <<processConstants(line, tgt)>>, exc |-> "none"]
    ELSE [inIf |-> st.inIf, skipLines |-> st.skipLines,
          names |-> st.names, recorded |-> FALSE, out |-> <<>>, exc |-> "none"]

\* toPrepend = "\n\n// ~~~ IMPORTED FROM " + libName + " ~~~\n"
Marker(libName) ==
    <<"\n", "\n", "// ~~~ IMPORTED FROM ">> \o libName \o <<" ~~~", "\n">>

\* libFile.read(): the whole file as one text
RECURSIVE ReadAllSubstituted(_)
ReadAllSubstituted(lines) ==
    IF lines = <<>> THEN <<>>
    ELSE processConstants(Head(lines), COCOHUE) \o ReadAllSubstituted(Tail(lines))

RECURSIVE ReadAll(_)
ReadAll(lines) ==
    IF lines = <<>> THEN <<>> ELSE Head(lines) \o ReadAll(Tail(lines))

-----------------------------------------------------------------------------
(* The file system.                                                        *)

\* os.remove(p)
OsRemoveNothing(fs, p) == fs

OsRemove(fs, p) == [q \in (DOMAIN fs) \ {p} |-> fs[q]]

\* open(p, "a+"): the file is created empty if it does not exist and is
\* kept as it is if it does.
OpenAppend(fs, p) == IF p \in DOMAIN fs THEN fs ELSE (p :> <<>>) @@ fs

\* newFile.write(...): the chunks go to the end of the file
WriteNothing(fs, p, chunks) == fs

WriteChunks(fs, p, chunks) == [fs EXCEPT ![p] = @ \o chunks]

\* f.close(), and the end of a with block: the handle on p is given up
CloseNothing(open, p) == open

CloseFile(open, p) == open \ {p}

\* A written text with where it comes from: kind "src" (line `line` of the
\* source), "marker", "lib" (line `line` of the library of the inc-th
\* recorded #include), "raw" (that library's whole content).
Chunk(kind, line, inc, text) ==
    [kind |-> kind, line |-> line, inc |-> inc, text |-> text]

\* Where control goes when a statement of processFile raises: no caller
\* catches anything, so the run ends.
OnExceptionContinue == "pf_returned"

OnException == "crashed"

DestPathShared(file) == PathJoin(OUTPUT_DIR, "out.groovy")

\* destFilename = os.path.join(OUTPUT_DIR, file)
DestPath(file) == PathJoin(OUTPUT_DIR, file)

LibPath(libName) == PathJoin(<<LIB_DIR>>, libraries[libName])

-----------------------------------------------------------------------------
(* processFile, step by step.                                              *)

Locals == [inIf |-> inIf, skipLines |-> skipLines, names |-> libNamesToInclude]

\* An exception leaves processFile: the with block closes ogFile, and
\* nothing catches the exception.
Raise(e) ==
    /\ pc' = OnException
    /\ exc' = e
    /\ openFiles' = CloseFile(openFiles, sourceFile)

\* Lines 109-118: the progress line, the destination deleted if it exists
\* and opened for appending, the source opened, the locals initialised.
\* The content of a source file not read before is an input, met here.
processFile_Open ==
    /\ pc = "pf_entry"
    /\ \E content \in (IF fsSrc[sourceFile].known
                       THEN {fsSrc[sourceFile].lines} ELSE BatchSourceSet) :
          /\ fsSrc' = [fsSrc EXCEPT ![sourceFile] = File(content)]
          /\ pc' = IF content = <<>> THEN "pf_libs" ELSE "pf_scan"
    /\ stdout' = Append(stdout, [msg |-> "PROCESSING", a |-> sourceFile, b |-> destFile])
    /\ disk' = OpenAppend(IF destFile \in DOMAIN disk
                          THEN OsRemove(disk, destFile) ELSE disk, destFile)
    /\ ioLog' = ioLog \cup {<<"open", destFile>>, <<"open", sourceFile>>}
                      \cup (IF destFile \in DOMAIN disk
                            THEN {<<"remove", destFile>>} ELSE {})
    /\ openFiles' = openFiles \cup {destFile, sourceFile}
    /\ libNamesToInclude' = <<>>
    /\ inIf' = FALSE
    /\ skipLines' = FALSE
    /\ linePos' = 1
    /\ libIdx' = 1
    /\ libPos' = 1
    /\ emitted' = <<>>
    /\ recordedAt' = <<>>
    /\ UNCHANGED <<argv, target, totalProcessed, phase, idx, fsLib, sourceFile,
                   destFile, preprocessLibrary, exc, completed, pcIn, pcOut>>

\* Lines 119-132: one turn of "for line in ogFile".
processFile_ScanLine ==
    /\ pc = "pf_scan"
    /\ LET lines == fsSrc[sourceFile].lines
           r == ScanSourceLine(lines[linePos], Locals, target)
           chunks == [i \in DOMAIN r.out |-> Chunk("src", linePos, 0, r.out[i])]
       IN  /\ inIf' = r.inIf
           /\ skipLines' = r.skipLines
           /\ libNamesToInclude' = r.names
           /\ IF r.exc # "none"
              THEN /\ Raise(r.exc)
                   /\ UNCHANGED <<disk, emitted, recordedAt, linePos, ioLog>>
              ELSE /\ disk' = WriteChunks(disk, destFile, chunks)
                   /\ emitted' = emitted \o chunks
                   /\ ioLog' = ioLog \cup (IF chunks # <<>>
                                           THEN {<<"write", destFile>>} ELSE {})
                   /\ recordedAt' = IF r.recorded
                                    THEN Append(recordedAt, linePos) ELSE recordedAt
                   /\ linePos' = linePos + 1
                   /\ pc' = IF linePos = Len(lines) THEN "pf_libs" ELSE "pf_scan"
                   /\ UNCHANGED <<exc, openFiles>>
    /\ UNCHANGED <<argv, target, totalProcessed, phase, idx, stdout, fsSrc, fsLib,
                   sourceFile, destFile, preprocessLibrary, libIdx, libPos,
                   completed, pcIn, pcOut>>

\* Lines 134-138, and 154 for a library without lines: the library looked up
\* in the registry and opened, the marker written.  The content of a library
\* file not read before is an input, met here.
processFile_LibOpen ==
    /\ pc = "pf_libs"
    /\ libIdx <= Len(libNamesToInclude)
    /\ LET libName == libNamesToInclude[libIdx]
       IN  IF libName \notin DOMAIN libraries
           THEN /\ Raise("KeyError")
                /\ UNCHANGED <<fsLib, disk, emitted, ioLog, libIdx, libPos>>
           ELSE LET libFilePath == LibPath(libName)
                    chunk == Chunk("marker", 0, libIdx, Marker(libName))
                IN  /\ \E content \in (IF fsLib[libFilePath].known
                                       THEN {fsLib[libFilePath].lines}
                                       ELSE LibContentSet) :
                          /\ fsLib' = [fsLib EXCEPT ![libFilePath] = File(content)]
                          /\ IF ~preprocessLibrary
                             THEN /\ pc' = "pf_libraw"
                                  /\ openFiles' = openFiles \cup {libFilePath}
                                  /\ libIdx' = libIdx
                             ELSE IF content = <<>>
                             THEN /\ pc' = "pf_libs"
                                  /\ openFiles' = openFiles
                                  /\ libIdx' = libIdx + 1
                             ELSE /\ pc' = "pf_libscan"
                                  /\ openFiles' = openFiles \cup {libFilePath}
                                  /\ libIdx' = libIdx
                    /\ disk' = WriteChunks(disk, destFile, <<chunk>>)
                    /\ emitted' = Append(emitted, chunk)
                    /\ ioLog' = ioLog \cup {<<"open", libFilePath>>, <<"write", destFile>>}
                    /\ libPos' = 1
                    /\ exc' = exc
    /\ UNCHANGED <<argv, target, totalProcessed, phase, idx, stdout, fsSrc,
                   sourceFile, destFile, preprocessLibrary, libNamesToInclude,
                   inIf, skipLines, linePos, recordedAt, completed, pcIn, pcOut>>

\* Lines 140-142 and 154: the library copied as it is, and closed.
processFile_LibRaw ==
    /\ pc = "pf_libraw"
    /\ LET libFilePath == LibPath(libNamesToInclude[libIdx])
           chunk == Chunk("raw", 0, libIdx, ReadAll(fsLib[libFilePath].lines))
       IN  /\ disk' = WriteChunks(disk, destFile, <<chunk>>)
           /\ emitted' = Append(emitted, chunk)
           /\ ioLog' = ioLog \cup {<<"write", destFile>>}
           /\ openFiles' = CloseFile(openFiles, libFilePath)
    /\ libIdx' = libIdx + 1
    /\ pc' = "pf_libs"
    /\ UNCHANGED <<argv, target, totalProcessed, phase, idx, stdout, fsSrc, fsLib,
                   sourceFile, destFile, preprocessLibrary, libNamesToInclude,
                   inIf, skipLines, linePos, libPos, exc, recordedAt, completed,
                   pcIn, pcOut>>

\* Lines 145-153, and 154 after the last line: one turn of
\* "for line in libFile".  inIf and skipLines are the variables of the
\* source's scan.
processFile_LibLine ==
    /\ pc = "pf_libscan"
    /\ LET libFilePath == LibPath(libNamesToInclude[libIdx])
           lines == fsLib[libFilePath].lines
           r == ScanLibLine(lines[libPos], Locals, target)
           chunks == [i \in DOMAIN r.out |-> Chunk("lib", libPos, libIdx, r.out[i])]
       IN  /\ inIf' = r.inIf
           /\ skipLines' = r.skipLines
           /\ libNamesToInclude' = r.names
           /\ IF r.exc # "none"
              THEN /\ Raise(r.exc)
                   /\ UNCHANGED <<disk, emitted, ioLog, libIdx, libPos>>
              ELSE /\ disk' = WriteChunks(disk, destFile, chunks)
                   /\ emitted' = emitted \o chunks
                   /\ ioLog' = ioLog \cup (IF chunks # <<>>
                                           THEN {<<"write", destFile>>} ELSE {})
                   /\ IF libPos = Len(lines)
                      THEN /\ openFiles' = CloseFile(openFiles, libFilePath)
                           /\ libIdx' = libIdx + 1
                           /\ libPos' = 1
                           /\ pc' = "pf_libs"
                      ELSE /\ openFiles' = openFiles
                           /\ libIdx' = libIdx
                           /\ libPos' = libPos + 1
                           /\ pc' = "pf_libscan"
                   /\ exc' = exc
    /\ UNCHANGED <<argv, target, totalProcessed, phase, idx, stdout, fsSrc, fsLib,
                   sourceFile, destFile, preprocessLibrary, linePos, recordedAt,
                   completed, pcIn, pcOut>>

\* The end of the with block and line 155: ogFile and newFile closed.
processFile_Close ==
    /\ pc = "pf_libs"
    /\ libIdx > Len(libNamesToInclude)
    /\ openFiles' = CloseFile(CloseFile(openFiles, sourceFile), destFile)
    /\ completed' = (destFile :> disk[destFile]) @@ completed
    /\ pc' = "pf_returned"
    /\ UNCHANGED <<argv, target, totalProcessed, phase, idx, stdout, fsSrc, fsLib,
                   disk, sourceFile, destFile, preprocessLibrary, libNamesToInclude,
                   inIf, skipLines, linePos, libIdx, libPos, exc, emitted,
                   recordedAt, ioLog, pcIn, pcOut>>

-----------------------------------------------------------------------------
(* The program: the entry point, main, processApps and processDrivers.     *)

ProgName == <<"preprocessor-cocohue.py">>

\* The command lines tried: no argument, the target, the target between
\* blanks, a name that is no target.
ArgvSet ==
    { <<ProgName>>,
      <<ProgName, <<"COCOHUE">>>>,
      <<ProgName, <<" ", "COCOHUE", " ">>>>,
      <<ProgName, <<"BOGUS">>>> }

\* Lines 209-212: the target the command line selects, if it selects one.
NoTarget == [ok |-> FALSE, val |-> ""]

ResolveTargetOrDefault(args) ==
    IF Len(args) > 1 /\ Strip(args[2]) \in DOMAIN ALL_TARGET_NAMES
    THEN [ok |-> TRUE, val |-> ALL_TARGET_NAMES[Strip(args[2])]]
    ELSE [ok |-> TRUE, val |-> COCOHUE]

ResolveTarget(args) ==
    IF Len(args) > 1 /\ Strip(args[2]) \in DOMAIN ALL_TARGET_NAMES
    THEN [ok |-> TRUE, val |-> ALL_TARGET_NAMES[Strip(args[2])]]
    ELSE NoTarget

Message(msg, a, b) == [msg |-> msg, a |-> a, b |-> b]

\* totalProcessed += 1
IncrementedTwice(n) == n + 2

Incremented(n) == n + 1

\* Lines 208-217, and 201-202 when main is called: main prints its header
\* and enters processApps; otherwise one of the two usage messages is
\* printed and the program ends.
Startup ==
    /\ pc = "start"
    /\ LET t == ResolveTarget(argv)
       IN  IF t.ok
           THEN /\ target' = t.val
                /\ stdout' = Append(stdout, Message("Processing for target", t.val, <<>>))
                /\ phase' = "apps"
                /\ idx' = 1
                /\ pc' = "apps"
           ELSE /\ stdout' = Append(stdout,
                        IF Len(argv) > 1
                        THEN Message("Invalaid target specified", argv[2], <<>>)
                        ELSE Message("No target specified", <<>>, <<>>))
                /\ pc' = "exit"
                /\ UNCHANGED <<target, phase, idx>>
    /\ UNCHANGED <<argv, totalProcessed, fsSrc, fsLib, disk, sourceFile, destFile,
                   preprocessLibrary, libNamesToInclude, inIf, skipLines, linePos,
                   libIdx, libPos, openFiles, exc, emitted, recordedAt, ioLog,
                   completed, pcIn, pcOut>>

\* Lines 180-183: the next app file handed to processFile.
processApps_Call ==
    /\ pc = "apps"
    /\ idx <= Len(appFiles)
    /\ sourceFile' = PathJoin(<<APP_DIR>>, appFiles[idx])
    /\ destFile' = DestPath(appFiles[idx])
    /\ preprocessLibrary' = TRUE
    /\ pc' = "pf_entry"
    /\ UNCHANGED <<argv, target, totalProcessed, phase, idx, stdout, fsSrc, fsLib,
                   disk, libNamesToInclude, inIf, skipLines, linePos, libIdx,
                   libPos, openFiles, exc, emitted, recordedAt, ioLog, completed,
                   pcIn, pcOut>>

\* Lines 184-185: processFile has returned.
processApps_Count ==
    /\ pc = "pf_returned"
    /\ phase = "apps"
    /\ totalProcessed' = Incremented(totalProcessed)
    /\ idx' = idx + 1
    /\ pc' = "apps"
    /\ UNCHANGED <<argv, target, phase, stdout, fsSrc, fsLib, disk, sourceFile,
                   destFile, preprocessLibrary, libNamesToInclude, inIf, skipLines,
                   linePos, libIdx, libPos, openFiles, exc, emitted, recordedAt,
                   ioLog, completed, pcIn, pcOut>>

\* The end of processApps' loop; line 203: main enters processDrivers.
processApps_Return ==
    /\ pc = "apps"
    /\ idx > Len(appFiles)
    /\ phase' = "drivers"
    /\ idx' = 1
    /\ pc' = "drivers"
    /\ UNCHANGED <<argv, target, totalProcessed, stdout, fsSrc, fsLib, disk,
                   sourceFile, destFile, preprocessLibrary, libNamesToInclude,
                   inIf, skipLines, linePos, libIdx, libPos, openFiles, exc,
                   emitted, recordedAt, ioLog, completed, pcIn, pcOut>>

\* Lines 189-192: the next driver file handed to processFile.
processDrivers_Call ==
    /\ pc = "drivers"
    /\ idx <= Len(driverFiles)
    /\ sourceFile' = PathJoin(<<DRIVER_DIR>>, driverFiles[idx])
    /\ destFile' = DestPath(driverFiles[idx])
    /\ preprocessLibrary' = TRUE
    /\ pc' = "pf_entry"
    /\ UNCHANGED <<argv, target, totalProcessed, phase, idx, stdout, fsSrc, fsLib,
                   disk, libNamesToInclude, inIf, skipLines, linePos, libIdx,
                   libPos, openFiles, exc, emitted, recordedAt, ioLog, completed,
                   pcIn, pcOut>>

\* Lines 193-194: processFile has returned.
processDrivers_Count ==
    /\ pc = "pf_returned"
    /\ phase = "drivers"
    /\ totalProcessed' = Incremented(totalProcessed)
    /\ idx' = idx + 1
    /\ pc' = "drivers"
    /\ UNCHANGED <<argv, target, phase, stdout, fsSrc, fsLib, disk, sourceFile,
                   destFile, preprocessLibrary, libNamesToInclude, inIf, skipLines,
                   linePos, libIdx, libPos, openFiles, exc, emitted, recordedAt,
                   ioLog, completed, pcIn, pcOut>>

\* The end of processDrivers' loop and line 204: the summary.
main_Done ==
    /\ pc = "drivers"
    /\ idx > Len(driverFiles)
    /\ stdout' = Append(stdout, Message("Done. TOTAL", totalProcessed, <<>>))
    /\ pc' = "exit"
    /\ UNCHANGED <<argv, target, totalProcessed, phase, idx, fsSrc, fsLib, disk,
                   sourceFile, destFile, preprocessLibrary, libNamesToInclude,
                   inIf, skipLines, linePos, libIdx, libPos, openFiles, exc,
                   emitted, recordedAt, ioLog, completed, pcIn, pcOut>>

-----------------------------------------------------------------------------
(* The specifications.                                                     *)

SourcePaths ==
    {PathJoin(<<APP_DIR>>, appFiles[i]) : i \in DOMAIN appFiles}
        \cup {PathJoin(<<DRIVER_DIR>>, driverFiles[i]) : i \in DOMAIN driverFiles}

DestPaths ==
    {DestPath(appFiles[i]) : i \in DOMAIN appFiles}
        \cup {DestPath(driverFiles[i]) : i \in DOMAIN driverFiles}

LibPaths == {LibPath(n) : n \in DOMAIN libraries}

BriPath == LibPath(<<"RMoRobert.CoCoHue_Bri_Lib">>)

CTPath == LibPath(<<"RMoRobert.CoCoHue_CT_Lib">>)

\* The library files: the content of the Bri library is an input, the CT
\* library holds one line, the others are empty.  Every source file of the
\* manifest and every library file of the registry exists, so that no open
\* fails.
InitLibs ==
    fsLib = [p \in LibPaths |->
                IF p = BriPath THEN Unread
                ELSE IF p = CTPath THEN File(<<L_Log>>) ELSE File(<<>>)]

NoFiles == [p \in {} |-> <<>>]

NoResult == [done |-> FALSE, line |-> <<>>]

\* processFile is not running.
InitLocals ==
    /\ libNamesToInclude = <<>>
    /\ inIf = FALSE
    /\ skipLines = FALSE
    /\ linePos = 1
    /\ libIdx = 1
    /\ libPos = 1
    /\ openFiles = {}
    /\ exc = "none"
    /\ emitted = <<>>
    /\ recordedAt = <<>>
    /\ ioLog = {}
    /\ completed = NoFiles

\* The program is started: any of the command lines, the output directory
\* empty or holding the files of an earlier run, the source files not read.
Init ==
    /\ argv \in ArgvSet
    /\ pc = "start"
    /\ target = ""
    /\ totalProcessed = 0
    /\ phase = "none"
    /\ idx = 1
    /\ stdout = <<>>
    /\ fsSrc = [p \in SourcePaths |-> Unread]
    /\ InitLibs
    /\ disk \in {NoFiles, [p \in DestPaths |-> StaleContent]}
    /\ sourceFile = <<>>
    /\ destFile = <<>>
    /\ preprocessLibrary = TRUE
    /\ InitLocals
    /\ pcIn = <<>>
    /\ pcOut = NoResult

ProcessFileNext ==
    \/ processFile_Open
    \/ processFile_ScanLine
    \/ processFile_LibOpen
    \/ processFile_LibLine
    \/ processFile_Close

Next ==
    \/ Startup
    \/ processApps_Call
    \/ processApps_Count
    \/ processApps_Return
    \/ processDrivers_Call
    \/ processDrivers_Count
    \/ main_Done
    \/ processFile_Open
    \/ processFile_ScanLine
    \/ processFile_LibOpen
    \/ processFile_LibLine
    \/ processFile_Close

Spec == Init /\ [][Next]_vars

\* One call processFile(sourceFile, destFile, COCOHUE) on a source file
\* drawn from SourceSet, the destination absent or left by an earlier run.
InitFile ==
    /\ argv = <<ProgName, <<"COCOHUE">>>>
    /\ pc = "pf_entry"
    /\ target = COCOHUE
    /\ totalProcessed = 0
    /\ phase = "direct"
    /\ idx = 1
    /\ stdout = <<>>
    /\ sourceFile = PathJoin(<<APP_DIR>>, appFiles[1])
    /\ destFile = DestPath(appFiles[1])
    /\ \E s \in SourceSet : fsSrc = (PathJoin(<<APP_DIR>>, appFiles[1]) :> File(s))
    /\ InitLibs
    /\ disk \in {NoFiles, (DestPath(appFiles[1]) :> StaleContent)}
    /\ preprocessLibrary = TRUE
    /\ InitLocals
    /\ pcIn = <<>>
    /\ pcOut = NoResult

NextFile ==
    \/ processFile_Open
    \/ processFile_ScanLine
    \/ processFile_LibOpen
    \/ processFile_LibLine
    \/ processFile_Close

SpecFile == InitFile /\ [][NextFile]_vars

\* processFile called a second time, with the same arguments, after it has
\* returned: idx counts the calls.
processFile_Again ==
    /\ pc = "pf_returned"
    /\ phase = "direct"
    /\ idx = 1
    /\ idx' = idx + 1
    /\ pc' = "pf_entry"
    /\ UNCHANGED <<argv, target, totalProcessed, phase, stdout, fsSrc, fsLib, disk,
                   sourceFile, destFile, preprocessLibrary, libNamesToInclude,
                   inIf, skipLines, linePos, libIdx, libPos, openFiles, exc,
                   emitted, recordedAt, ioLog, completed, pcIn, pcOut>>

NextTwice ==
    \/ processFile_Open
    \/ processFile_ScanLine
    \/ processFile_LibOpen
    \/ processFile_LibLine
    \/ processFile_Close
    \/ processFile_Again

\* Two calls of processFile in succession on the same source and destination.
SpecTwice == InitFile /\ [][NextTwice]_vars

\* The same call with preprocessLibrary = False.
InitRaw ==
    /\ argv = <<ProgName, <<"COCOHUE">>>>
    /\ pc = "pf_entry"
    /\ target = COCOHUE
    /\ totalProcessed = 0
    /\ phase = "direct"
    /\ idx = 1
    /\ stdout = <<>>
    /\ sourceFile = PathJoin(<<APP_DIR>>, appFiles[1])
    /\ destFile = DestPath(appFiles[1])
    /\ \E s \in SourceSet : fsSrc = (PathJoin(<<APP_DIR>>, appFiles[1]) :> File(s))
    /\ InitLibs
    /\ disk \in {NoFiles, (DestPath(appFiles[1]) :> StaleContent)}
    /\ preprocessLibrary = FALSE
    /\ InitLocals
    /\ pcIn = <<>>
    /\ pcOut = NoResult

NextRaw ==
    \/ processFile_Open
    \/ processFile_ScanLine
    \/ processFile_LibOpen
    \/ processFile_LibRaw
    \/ processFile_Close

SpecRaw == InitRaw /\ [][NextRaw]_vars

\* The lines processConstants is tried on: up to MaxPieces pieces, each an
\* underscore, a word, a constant's body or value, or a whole constant.
PCPieces ==
    { <<"_">>, <<"x">>, <<"APP_NAME">>, <<"DNI_PREFIX">>, <<"CCH">>,
      Key("APP_NAME"), Key("DNI_PREFIX") }

PCLines == {ReadAll(ps) : ps \in SeqsUpTo(PCPieces, MaxPieces)}

InitPC ==
    /\ argv = <<ProgName, <<"COCOHUE">>>>
    /\ pc = "pc_call"
    /\ target \in Range(ALL_TARGETS)
    /\ totalProcessed = 0
    /\ phase = "direct"
    /\ idx = 1
    /\ stdout = <<>>
    /\ sourceFile = <<>>
    /\ destFile = <<>>
    /\ fsSrc = NoFiles
    /\ InitLibs
    /\ disk = NoFiles
    /\ preprocessLibrary = TRUE
    /\ InitLocals
    /\ pcIn \in PCLines
    /\ pcOut = NoResult

\* processConstants(pcIn, target) is called and returns.
processConstants_Call ==
    /\ pc = "pc_call"
    /\ pcOut' = [done |-> TRUE, line |-> processConstants(pcIn, target)]
    /\ pc' = "pc_done"
    /\ UNCHANGED <<argv, target, totalProcessed, phase, idx, stdout, fsSrc, fsLib,
                   disk, sourceFile, destFile, preprocessLibrary, libNamesToInclude,
                   inIf, skipLines, linePos, libIdx, libPos, openFiles, exc,
                   emitted, recordedAt, ioLog, completed, pcIn>>

NextPC == processConstants_Call

SpecPC == InitPC /\ [][NextPC]_vars

-----------------------------------------------------------------------------
(* What the claims speak of, read off the files and the destination        *)
(* without the program's own functions.                                    *)

Blank == {" ", "\n", "\t"}

\* The position of the first token of a line that is not white space.
TextStart(line) ==
    IF \A i \in DOMAIN line : line[i] \in Blank THEN Len(line) + 1
    ELSE CHOOSE i \in DOMAIN line :
            line[i] \notin Blank /\ \A j \in 1..(i - 1) : line[j] \in Blank

\* The stripped text of the line begins with the word w.
BeginsWith(line, w) ==
    TextStart(line) <= Len(line) /\ line[TextStart(line)] = w

TextIsInclude(line) == BeginsWith(line, "#include")

\* The stripped text begins with "#IF ".
TextIsIf(line) ==
    /\ BeginsWith(line, "#IF")
    /\ TextStart(line) + 2 <= Len(line)
    /\ line[TextStart(line) + 1] = " "

TextIsEndif(line) == BeginsWith(line, "#ENDIF")

NotBlank(t) == t \notin Blank

NotBlankNorQuote(t) == t \notin Blank /\ t # "\""

NotBlankNorInclude(t) == t \notin Blank /\ t # "#include"

\* The library an #include line names.
NameOnLine(line) == SelectSeq(line, NotBlankNorInclude)

\* The position of the == of an #IF line.
EqPos(line) == CHOOSE i \in DOMAIN line : line[i] = "=="

\* X and Y of the line  #IF X == "Y".
IfName(line) ==
    SelectSeq(SubSeq(line, TextStart(line) + 2, EqPos(line) - 1), NotBlank)

IfLiteral(line) ==
    SelectSeq(SubSeq(line, EqPos(line) + 1, Len(line)), NotBlankNorQuote)

\* The destination of the current call, and the source it reads.
Out == disk[destFile]

SourceLines == fsSrc[sourceFile].lines

\* The call has opened its destination.
Opened == pc \in {"pf_scan", "pf_libs", "pf_libscan", "pf_libraw", "pf_returned",
                  "crashed"}

\* The lines of the library of the k-th recorded #include.
LibLinesOf(k) ==
    fsLib[PathJoin(<<LIB_DIR>>, libraries[NameOnLine(SourceLines[recordedAt[k]])])].lines

\* The source line k has been written (with its constants substituted).
SourceLineWritten(k) ==
    \E a \in DOMAIN Out :
        /\ Out[a].kind = "src"
        /\ Out[a].line = k
        /\ Out[a].text = processConstants(SourceLines[k], target)

SourceLineDropped(k) ==
    \A a \in DOMAIN Out : ~(Out[a].kind = "src" /\ Out[a].line = k)

\* i..j is a block #IF X == Y ... #ENDIF of the source, X a constant, with
\* no #IF or #ENDIF inside it and no #IF open before it, and lines in it.
IsBlock(i, j) ==
    /\ i + 1 < j
    /\ TextIsIf(SourceLines[i])
    /\ \E p \in DOMAIN SourceLines[i] : SourceLines[i][p] = "=="
    /\ IfName(SourceLines[i]) \in DOMAIN CONSTANTS_TABLE
    /\ TextIsEndif(SourceLines[j])
    /\ \A k \in (i + 1)..(j - 1) :
          ~TextIsIf(SourceLines[k]) /\ ~TextIsEndif(SourceLines[k])
    /\ \A h \in 1..(i - 1) :
          TextIsIf(SourceLines[h]) =>
             \E e \in (h + 1)..(i - 1) : TextIsEndif(SourceLines[e])

-----------------------------------------------------------------------------
(* C1 *)

\* C1: for every block #IF X == Y ... #ENDIF of the source that is not
\* nested, processFile writes every line between the two directives, with
\* the constants substituted, when the value of X for the target is the
\* literal Y, and writes none of them when it is not.
C1_BlockFollowsCondition ==
    pc = "pf_returned" =>
       \A i, j \in DOMAIN SourceLines :
          IsBlock(i, j) =>
             \A k \in (i + 1)..(j - 1) :
                ~TextIsInclude(SourceLines[k]) =>
                   IF CONSTANTS_TABLE[IfName(SourceLines[i])][target]
                         = IfLiteral(SourceLines[i])
                   THEN SourceLineWritten(k)
                   ELSE SourceLineDropped(k)

-----------------------------------------------------------------------------
(* C2 *)

\* C2: the scan of the source and the scan of every preprocessed library
\* start in state NORMAL (inIf and skipLines both false), whatever state the
\* file scanned before ended in.
C2_ScanStartsNormal ==
    /\ (pc = "pf_scan" /\ linePos = 1) => (~inIf /\ ~skipLines)
    /\ (pc = "pf_libscan" /\ libPos = 1) => (~inIf /\ ~skipLines)

-----------------------------------------------------------------------------
(* C3 *)

\* The line a chunk of the destination was written for.
ChunkLine(c) ==
    IF c.kind = "src" THEN SourceLines[c.line] ELSE LibLinesOf(c.inc)[c.line]

\* C3 as stated: no line of the source or of a preprocessed library whose
\* stripped text begins with #include, "#IF " or #ENDIF is ever written.
C3_NoDirectiveWritten ==
    Opened =>
       \A a \in DOMAIN Out :
          Out[a].kind \in {"src", "lib"} =>
             /\ ~TextIsInclude(ChunkLine(Out[a]))
             /\ ~TextIsIf(ChunkLine(Out[a]))
             /\ ~TextIsEndif(ChunkLine(Out[a]))

\* C3 as amended: no #include, "#IF " or #ENDIF line of the source is ever
\* written, and no "#IF " or #ENDIF line of a preprocessed library is; every
\* line written is a line that is none of these, with its constants
\* substituted.  (An #include line of a library is written like any other
\* line.)
C3_DirectivesConsumed ==
    Opened =>
       \A a \in DOMAIN Out :
          Out[a].kind \in {"src", "lib"} =>
             /\ Out[a].kind = "src" => ~TextIsInclude(ChunkLine(Out[a]))
             /\ ~TextIsIf(ChunkLine(Out[a]))
             /\ ~TextIsEndif(ChunkLine(Out[a]))
             /\ Out[a].text = processConstants(ChunkLine(Out[a]), target)

\* A call has returned whose source holds an #include, an #IF and an #ENDIF
\* line, after scanning a library that holds an #IF or #ENDIF line.
C3_Witness ==
    /\ pc = "pf_returned"
    /\ \E i, j, k \in DOMAIN SourceLines :
          /\ TextIsInclude(SourceLines[i])
          /\ TextIsIf(SourceLines[j])
          /\ TextIsEndif(SourceLines[k])
    /\ \E k \in DOMAIN recordedAt, n \in 1..MaxLibLines :
          /\ n <= Len(LibLinesOf(k))
          /\ TextIsIf(LibLinesOf(k)[n]) \/ TextIsEndif(LibLinesOf(k)[n])

-----------------------------------------------------------------------------
(* C4 *)

\* C4: in the destination every written line of the source precedes every
\* marker and every library line; the sections of the libraries are in the
\* order in which the #include lines were met, each section is its marker,
\* naming the library of that #include, followed at once by what is written
\* of that library, in the order of its lines; and when the call returns
\* there is one section for each #include met.
C4_TwoPhaseOrder ==
    Opened =>
       /\ \A a, b \in DOMAIN Out :
             a < b =>
                /\ Out[b].kind = "src" => Out[a].kind = "src"
                /\ Out[a].inc <= Out[b].inc
                /\ Out[b].kind = "marker" => Out[a].inc < Out[b].inc
                /\ (Out[a].kind = "src" /\ Out[b].kind = "src") =>
                      Out[a].line < Out[b].line
                /\ (Out[a].kind = "lib" /\ Out[b].kind = "lib"
                       /\ Out[a].inc = Out[b].inc) => Out[a].line < Out[b].line
       /\ \A a \in DOMAIN Out :
             /\ Out[a].kind = "src" => Out[a].inc = 0
             /\ Out[a].kind # "src" => Out[a].inc \in DOMAIN recordedAt
             /\ Out[a].kind = "marker" =>
                   Out[a].text = Marker(NameOnLine(SourceLines[recordedAt[Out[a].inc]]))
             /\ Out[a].kind = "lib" =>
                   /\ a > 1
                   /\ Out[a - 1].inc = Out[a].inc
                   /\ Out[a].text =
                         processConstants(LibLinesOf(Out[a].inc)[Out[a].line], target)
       /\ pc = "pf_returned" =>
             {Out[a].inc : a \in {b \in DOMAIN Out : Out[b].kind = "marker"}}
                = DOMAIN recordedAt

\* A call has returned that met an #include in the middle of its source:
\* a source line after the #include was written, and so was a library line.
C4_Witness ==
    /\ pc = "pf_returned"
    /\ recordedAt # <<>>
    /\ \E a \in DOMAIN Out : Out[a].kind = "src" /\ Out[a].line > recordedAt[1]
    /\ \E a \in DOMAIN Out : Out[a].kind = "src" /\ Out[a].line < recordedAt[1]
    /\ \E a \in DOMAIN Out : Out[a].kind = "lib"

-----------------------------------------------------------------------------
(* C5 *)

Markers == {a \in DOMAIN Out : Out[a].kind = "marker"}

-----------------------------------------------------------------------------
(* C6 *)

\* The occurrences of constants in a line: <<p, i>> when the i-th key
\* stands at position p.
Occurrences(line) ==
    {o \in (1..Len(line)) \X (DOMAIN CONSTANT_KEYS) :
        /\ o[1] + Len(CONSTANT_KEYS[o[2]]) - 1 <= Len(line)
        /\ SubSeq(line, o[1], o[1] + Len(CONSTANT_KEYS[o[2]]) - 1) = CONSTANT_KEYS[o[2]]}

\* Two occurrences share a position of the line.
Overlap(o1, o2) ==
    /\ o1 # o2
    /\ o1[1] <= o2[1] + Len(CONSTANT_KEYS[o2[2]]) - 1
    /\ o2[1] <= o1[1] + Len(CONSTANT_KEYS[o1[2]]) - 1

Disjoint(S) == \A o1, o2 \in S : ~Overlap(o1, o2)

\* The line from position p on, with each occurrence of S replaced by the
\* value of its constant for the target and everything else as it is.
RECURSIVE SubstituteFrom(_, _, _, _)
SubstituteFrom(line, S, tgt, p) ==
    IF p > Len(line) THEN <<>>
    ELSE IF \E o \in S : o[1] = p
         THEN LET o == CHOOSE o \in S : o[1] = p
              IN  CONSTANTS_TABLE[CONSTANT_KEYS[o[2]]][tgt]
                     \o SubstituteFrom(line, S, tgt, p + Len(CONSTANT_KEYS[o[2]]))
         ELSE <<line[p]>> \o SubstituteFrom(line, S, tgt, p + 1)

NoKeyIn(line) ==
    \A i \in DOMAIN CONSTANT_KEYS, p \in 1..Len(line) :
        ~(/\ p + Len(CONSTANT_KEYS[i]) - 1 <= Len(line)
          /\ SubSeq(line, p, p + Len(CONSTANT_KEYS[i]) - 1) = CONSTANT_KEYS[i])

\* C6 as stated: the result is the line with every occurrence of every
\* constant replaced by exactly the constant's value for the target and all
\* other text unchanged, and no constant is left in it.
C6_EveryOccurrenceReplaced ==
    pcOut.done =>
       /\ Disjoint(Occurrences(pcIn))
       /\ pcOut.line = SubstituteFrom(pcIn, Occurrences(pcIn), target, 1)
       /\ NoKeyIn(pcOut.line)

\* C6 as amended: the result is the line with occurrences of constants that
\* do not overlap one another, among them every occurrence that overlaps no
\* other, each replaced by exactly the constant's value for the target, and
\* all other text unchanged; no constant is left in it; a line without
\* constants is returned as it is.
C6_DisjointOccurrencesReplaced ==
    pcOut.done =>
       /\ \E S \in SUBSET Occurrences(pcIn) :
             /\ Disjoint(S)
             /\ \A o \in Occurrences(pcIn) :
                   (\A o2 \in Occurrences(pcIn) : ~Overlap(o, o2)) => o \in S
             /\ pcOut.line = SubstituteFrom(pcIn, S, target, 1)
       /\ NoKeyIn(pcOut.line)
       /\ Occurrences(pcIn) = {} => pcOut.line = pcIn

\* processConstants has returned for a line that holds two different
\* constants, with text between them, and the result differs from the line.
C6_Witness ==
    /\ pcOut.done
    /\ \E o1, o2 \in Occurrences(pcIn) :
          /\ o1[2] # o2[2]
          /\ o1[1] + Len(CONSTANT_KEYS[o1[2]]) < o2[1]
    /\ pcOut.line # pcIn

-----------------------------------------------------------------------------
(* C7 *)

\* The number of the manifest entry being processed, apps first.
EntryNo == IF phase = "apps" THEN idx ELSE Len(appFiles) + idx

ManifestSize == Len(appFiles) + Len(driverFiles)

\* C7: once processFile has failed, nothing more happens: no destination is
\* deleted, created or written, no file is opened, no further entry is
\* announced or counted, and totalProcessed stays as it is.
C7_FailureIsFatal ==
    [][exc # "none" =>
          /\ pc' = "crashed"
          /\ UNCHANGED <<disk, totalProcessed, ioLog, stdout, phase, idx,
                         sourceFile, destFile, fsSrc, fsLib>>]_vars

\* processFile has failed on an entry that is neither the first nor the
\* last of the manifest.
C7_Witness ==
    /\ exc # "none"
    /\ pc = "crashed"
    /\ totalProcessed >= 1
    /\ EntryNo < ManifestSize

-----------------------------------------------------------------------------
(* C8 *)

\* The files of the manifest entries before the one being processed.
EarlierFiles ==
    IF phase = "apps" THEN {appFiles[i] : i \in 1..(idx - 1)}
    ELSE Range(appFiles) \cup {driverFiles[i] : i \in 1..(idx - 1)}

\* C8: when the run has aborted, the destination of every earlier entry
\* exists and holds exactly what it held when its processFile call
\* returned, and nothing of an earlier run.
C8_NoRollback ==
    exc # "none" =>
       \A f \in EarlierFiles :
          /\ DestPath(f) \in DOMAIN disk
          /\ DestPath(f) \in DOMAIN completed
          /\ disk[DestPath(f)] = completed[DestPath(f)]
          /\ disk[DestPath(f)] # <<>>
          /\ \A a \in DOMAIN disk[DestPath(f)] : disk[DestPath(f)][a].kind # "stale"

\* The run has aborted in a driver entry after the app entry and at least
\* one driver entry were processed, with part of the failing entry's
\* destination written.
C8_Witness ==
    /\ exc # "none"
    /\ phase = "drivers"
    /\ idx >= 2
    /\ disk[destFile] # <<>>

-----------------------------------------------------------------------------
(* C9 *)

\* C9: from the moment processFile has opened its destination, and so when
\* it returns, the destination holds exactly what this call has written,
\* in the order written, and nothing of what it held before.
C9_DestinationReplaced ==
    (Opened /\ pc # "crashed") =>
       /\ destFile \in DOMAIN disk
       /\ disk[destFile] = emitted
       /\ \A a \in DOMAIN disk[destFile] : disk[destFile][a].kind # "stale"

\* A call has returned that found its destination on disk, deleted it and
\* wrote lines of the source and of a library.
C9_Witness ==
    /\ pc = "pf_returned"
    /\ <<"remove", destFile>> \in ioLog
    /\ \E a \in DOMAIN emitted : emitted[a].kind = "src"
    /\ \E a \in DOMAIN emitted : emitted[a].kind = "lib"

-----------------------------------------------------------------------------
(* C10 *)

\* No argument is given, or the stripped argument is no target name.
InvalidInvocation ==
    \/ Len(argv) < 2
    \/ \A n \in DOMAIN ALL_TARGET_NAMES :
          SelectSeq(argv[2], NotBlank) # n

\* C10: on an invalid invocation main is never entered, no file is opened,
\* no destination is deleted, created or written, totalProcessed stays 0,
\* and the program ends, without failure, having printed one usage message.
C10_InvalidInvocationDoesNothing ==
    InvalidInvocation =>
       /\ pc \in {"start", "exit"}
       /\ exc = "none"
       /\ target = ""
       /\ totalProcessed = 0
       /\ ioLog = {}
       /\ openFiles = {}
       /\ disk \in {NoFiles, [p \in DestPaths |-> StaleContent]}
       /\ \A p \in DOMAIN fsSrc : ~fsSrc[p].known
       /\ pc = "start" => stdout = <<>>
       /\ pc = "exit" =>
             /\ Len(stdout) = 1
             /\ stdout[1].msg \in {"No target specified", "Invalaid target specified"}
             /\ stdout[1].msg = "No target specified" <=> Len(argv) < 2

\* The program has ended after an argument that names no target, the
\* output directory holding the files of an earlier run.
C10_Witness ==
    /\ pc = "exit"
    /\ Len(argv) = 2
    /\ InvalidInvocation
    /\ disk # NoFiles

-----------------------------------------------------------------------------
(* C11 *)

\* The manifest as one list, the apps first: the source and the destination
\* of its k-th entry.
ManifestName(k) ==
    IF k <= Len(appFiles) THEN appFiles[k] ELSE driverFiles[k - Len(appFiles)]

ManifestSource(k) ==
    IF k <= Len(appFiles) THEN <<"apps", ManifestName(k)>>
    ELSE <<"drivers", ManifestName(k)>>

ManifestDest(k) == <<"full", "cocohue", ManifestName(k)>>

IsProgressLine(m) == m.msg = "PROCESSING"

\* The progress lines printed so far: one for each entry begun.
Begun == SelectSeq(stdout, IsProgressLine)

\* C11: the entries are begun in the order of the manifest, every app before
\* any driver; while the k-th entry is being processed, the destination of
\* every entry before it has been written and closed and is no longer
\* touched, and no file of an entry after it has been opened; between two
\* entries no file is open, and never are two destinations open.
C11_OneAtATimeInOrder ==
    /\ Len(Begun) <= ManifestSize
    /\ \A k \in DOMAIN Begun :
          /\ Begun[k].a = ManifestSource(k)
          /\ Begun[k].b = ManifestDest(k)
    /\ \A k \in 1..ManifestSize :
          /\ k < Len(Begun) =>
                /\ ManifestDest(k) \notin openFiles
                /\ ManifestSource(k) \notin openFiles
                /\ ManifestDest(k) \in DOMAIN completed
                /\ disk[ManifestDest(k)] = completed[ManifestDest(k)]
          /\ k > Len(Begun) =>
                /\ <<"open", ManifestSource(k)>> \notin ioLog
                /\ <<"open", ManifestDest(k)>> \notin ioLog
                /\ ManifestDest(k) \notin openFiles
    /\ Cardinality({k \in 1..ManifestSize : ManifestDest(k) \in openFiles}) <= 1
    /\ pc \in {"start", "apps", "drivers", "pf_entry", "pf_returned", "exit"} =>
          openFiles = {}
    /\ pc \in {"apps", "drivers"} => Len(Begun) = totalProcessed

\* A driver entry that is not the first is being processed, its destination
\* open and written to, after the app entry and the drivers before it.
C11_Witness ==
    /\ phase = "drivers"
    /\ idx >= 2
    /\ pc = "pf_libs"
    /\ destFile \in openFiles
    /\ disk[destFile] # <<>>
    /\ Len(Begun) = Len(appFiles) + idx

-----------------------------------------------------------------------------
(* C12 *)

\* The manifest entries whose processFile call has returned.
EntriesCompleted == {k \in 1..ManifestSize : ManifestDest(k) \in DOMAIN completed}

\* The statement after the call, which counts the entry, is about to run.
CountPending == IF pc = "pf_returned" THEN 1 ELSE 0

\* C12: totalProcessed is 0 at the start and is at every moment the number
\* of manifest entries whose processFile call has returned and been counted;
\* a step leaves it as it is or adds exactly 1 to it, and adds 1 exactly
\* when it is the step that follows the return of a processFile call; when
\* the run ends with the summary, the counter and the number printed are
\* the number of app entries plus the number of driver entries.
C12_CounterCountsCompleted ==
    /\ [](/\ totalProcessed + CountPending = Cardinality(EntriesCompleted)
          /\ pc = "start" => totalProcessed = 0
          /\ (pc = "exit" /\ target # "") =>
                /\ totalProcessed = Len(appFiles) + Len(driverFiles)
                /\ stdout[Len(stdout)].msg = "Done. TOTAL"
                /\ stdout[Len(stdout)].a = Len(appFiles) + Len(driverFiles))
    /\ [][/\ totalProcessed' \in {totalProcessed, totalProcessed + 1}
          /\ totalProcessed' = totalProcessed + 1 <=> pc = "pf_returned"]_vars

\* A run has ended with the summary after every entry was processed.
C12_Witness ==
    /\ pc = "exit"
    /\ target # ""
    /\ exc = "none"
    /\ totalProcessed = ManifestSize
    /\ Cardinality(EntriesCompleted) = ManifestSize

-----------------------------------------------------------------------------
(* C13 *)

\* An #IF line whose left-hand side is no constant.
IfOnUnknownName(line) ==
    /\ TextIsIf(line)
    /\ \E p \in DOMAIN line : line[p] = "=="
    /\ IfName(line) \notin DOMAIN CONSTANTS_TABLE

\* An #include line that names a library the registry does not hold.
IncludeOfUnknownLibrary(line) ==
    TextIsInclude(line) /\ NameOnLine(line) \notin DOMAIN libraries

\* An #IF line stands before line k of the source with no #ENDIF line
\* between the two: line k is met while lines are being skipped.
InOpenIf(k) ==
    \E h \in 1..(k - 1) :
        /\ TextIsIf(SourceLines[h])
        /\ \A e \in (h + 1)..(k - 1) : ~TextIsEndif(SourceLines[e])

\* No #IF on an unknown name is in the source or in a library scanned.
NoIfOnUnknownName ==
    /\ \A k \in DOMAIN SourceLines : ~IfOnUnknownName(SourceLines[k])
    /\ \A k \in DOMAIN recordedAt :
          NameOnLine(SourceLines[recordedAt[k]]) \in DOMAIN libraries =>
             \A n \in DOMAIN LibLinesOf(k) : ~IfOnUnknownName(LibLinesOf(k)[n])

\* C13 as stated: a call whose source or scanned library holds an #IF on a
\* name that is no constant, or whose source holds an #include of a library
\* that is not in the registry, never returns normally.
C13_LookupFailureAborts ==
    pc = "pf_returned" =>
       /\ NoIfOnUnknownName
       /\ \A k \in DOMAIN SourceLines : ~IncludeOfUnknownLibrary(SourceLines[k])

\* C13 as amended: a call whose source or scanned library holds an #IF on a
\* name that is no constant, or whose source holds, at a place where lines
\* are not being skipped, an #include of a library that is not in the
\* registry, never returns normally; an #include met while lines are being
\* skipped is not looked up.
C13_MetLookupFailureAborts ==
    pc = "pf_returned" =>
       /\ NoIfOnUnknownName
       /\ \A k \in DOMAIN SourceLines :
             IncludeOfUnknownLibrary(SourceLines[k]) => InOpenIf(k)

\* A call has failed with a KeyError in phase two, on an #include of an
\* unregistered library met outside every #IF block, after the sections of
\* an earlier library were written.
C13_Witness ==
    /\ pc = "crashed"
    /\ exc = "KeyError"
    /\ linePos > Len(SourceLines)
    /\ libIdx >= 2
    /\ \E k \in DOMAIN SourceLines :
          IncludeOfUnknownLibrary(SourceLines[k]) /\ ~InOpenIf(k)

-----------------------------------------------------------------------------
(* C14 *)

\* C14: when the second of two successive calls of processFile on the same
\* source and destination returns, the destination holds exactly what it
\* held when the first call returned; and while the second call runs, the
\* destination holds the beginning of that content and nothing else.
C14_Idempotent ==
    [][idx = 2 =>
          /\ (pc = "pf_libs" /\ pc' = "pf_returned") =>
                disk'[destFile] = completed[destFile]
          /\ (pc' \in {"pf_scan", "pf_libs", "pf_libscan"}) =>
                /\ Len(disk'[destFile]) <= Len(completed[destFile])
                /\ disk'[destFile]
                      = SubSeq(completed[destFile], 1, Len(disk'[destFile]))]_vars

\* The second call has returned, having found the destination written by
\* the first, with lines of the source and of a library in it.
C14_Witness ==
    /\ pc = "pf_returned"
    /\ idx = 2
    /\ \E a \in DOMAIN disk[destFile] : disk[destFile][a].kind = "src"
    /\ \E a \in DOMAIN disk[destFile] : disk[destFile][a].kind = "lib"
    /\ <<"remove", destFile>> \in ioLog

-----------------------------------------------------------------------------
(* C15 *)

\* The line the scan is about to read, of the source or of a library.
CurLine ==
    IF pc = "pf_scan" THEN SourceLines[linePos]
    ELSE fsLib[PathJoin(<<LIB_DIR>>, libraries[libNamesToInclude[libIdx]])].lines[libPos]

\* A step that reads a line without failing.
ScanStep ==
    /\ pc \in {"pf_scan", "pf_libscan"}
    /\ pc' # "crashed"
    /\ <<linePos, libIdx, libPos>>' # <<linePos, libIdx, libPos>>

\* The values the two flags can have before a line is read.
FlagStates == [inIf : BOOLEAN, skipLines : BOOLEAN, names : {<<>>}]

\* The flags after the line is read from the state st, as the scan in
\* progress computes them.
FlagsAfter(line, st) ==
    LET r == IF pc = "pf_scan" THEN ScanSourceLine(line, st, target)
             ELSE ScanLibLine(line, st, target)
    IN  <<r.inIf, r.skipLines>>

\* C15: reading an #ENDIF line leaves the state NORMAL, whatever the state
\* was, and changes nothing when it was NORMAL; reading an #IF line leaves
\* a conditional state that is the same whatever the state before it was;
\* reading any other line leaves the state as it is, so that a conditional
\* state is left only through #ENDIF; and in state NORMAL a line that is no
\* directive is written.
C15_SingleFlagMachine ==
    [][ScanStep =>
          /\ TextIsEndif(CurLine) =>
                /\ ~inIf' /\ ~skipLines'
                /\ disk' = disk
                /\ (~inIf /\ ~skipLines) => UNCHANGED <<inIf, skipLines, libNamesToInclude>>
          /\ TextIsIf(CurLine) =>
                /\ inIf'
                /\ disk' = disk
                /\ \A st \in FlagStates : FlagsAfter(CurLine, st) = <<inIf', skipLines'>>
          /\ (~TextIsEndif(CurLine) /\ ~TextIsIf(CurLine)) =>
                /\ UNCHANGED <<inIf, skipLines>>
                /\ (~inIf /\ ~skipLines
                       /\ ~(pc = "pf_scan" /\ TextIsInclude(CurLine))) =>
                      Len(disk'[destFile]) = Len(disk[destFile]) + 1]_vars

\* The scan of a source of two #IF lines and an #ENDIF line has ended, in
\* state NORMAL.
C15_Witness ==
    /\ pc \in {"pf_libs", "pf_returned"}
    /\ Len(SourceLines) = 3
    /\ TextIsIf(SourceLines[1])
    /\ TextIsIf(SourceLines[2])
    /\ SourceLines[1] # SourceLines[2]
    /\ TextIsEndif(SourceLines[3])
    /\ ~inIf
    /\ ~skipLines

-----------------------------------------------------------------------------
(* C16 *)

\* The scan is about to read an #include line of a library.
AtLibraryInclude == pc = "pf_libscan" /\ TextIsInclude(CurLine)

\* C16: the inclusion list is, in order, the libraries named by the #include
\* lines recorded from the source, and nothing is added to it once the scan
\* of the source has ended; every section of the destination stands under
\* the marker of one of those lines; what is written of a library line is
\* the line with its constants substituted; and an #include line of a
\* library is handled as a line that is no directive: the flags stay as
\* they are and the line is written unless lines are being skipped.
C16_NoNestedIncludes ==
    /\ [](Opened =>
             /\ Len(libNamesToInclude) = Len(recordedAt)
             /\ \A k \in DOMAIN recordedAt :
                   /\ TextIsInclude(SourceLines[recordedAt[k]])
                   /\ libNamesToInclude[k] = NameOnLine(SourceLines[recordedAt[k]])
             /\ \A a \in DOMAIN Out :
                   /\ Out[a].kind # "src" => Out[a].inc \in DOMAIN recordedAt
                   /\ Out[a].kind = "marker" =>
                         Out[a].text = Marker(NameOnLine(SourceLines[recordedAt[Out[a].inc]]))
                   /\ Out[a].kind = "lib" =>
                         Out[a].text
                            = processConstants(LibLinesOf(Out[a].inc)[Out[a].line], target)
             /\ pc = "pf_returned" =>
                   Cardinality({a \in DOMAIN Out : Out[a].kind = "marker"})
                      = Len(recordedAt))
    /\ [][/\ pc \in {"pf_libs", "pf_libscan", "pf_libraw"} =>
                UNCHANGED <<libNamesToInclude, recordedAt>>
          /\ (AtLibraryInclude /\ ScanStep) =>
                /\ UNCHANGED <<inIf, skipLines>>
                /\ Len(disk'[destFile])
                      = Len(disk[destFile]) + (IF inIf /\ skipLines THEN 0 ELSE 1)]_vars

\* A call has returned that wrote an #include line of a library into the
\* destination as text; the library named on it has no section.
C16_Witness ==
    /\ pc = "pf_returned"
    /\ \E a \in DOMAIN Out :
          /\ Out[a].kind = "lib"
          /\ TextIsInclude(LibLinesOf(Out[a].inc)[Out[a].line])
          /\ \A b \in DOMAIN Out :
                Out[b].kind = "marker" =>
                   Out[b].text # Marker(NameOnLine(LibLinesOf(Out[a].inc)[Out[a].line]))

-----------------------------------------------------------------------------
(* C17 *)

\* The text of a file: its lines one after the other.
RECURSIVE TextOf(_)
TextOf(lines) ==
    IF Len(lines) = 0 THEN <<>>
    ELSE TextOf(SubSeq(lines, 1, Len(lines) - 1)) \o lines[Len(lines)]

\* C17: with preprocessLibrary false, what stands in the destination after
\* the marker of an included library is the text of the library file, as it
\* is, in one piece; no line of a library is written on its own; no step of
\* phase two changes the flags; and when the call returns every marker is
\* followed by such a copy, whatever the flags hold.
C17_RawLibraryCopy ==
    /\ [](Opened =>
             /\ \A a \in DOMAIN Out :
                   /\ Out[a].kind # "lib"
                   /\ Out[a].kind = "raw" =>
                         /\ a > 1
                         /\ Out[a - 1].kind = "marker"
                         /\ Out[a - 1].inc = Out[a].inc
                         /\ Out[a].text = TextOf(LibLinesOf(Out[a].inc))
                   /\ (Out[a].kind = "marker" /\ pc = "pf_returned") =>
                         /\ a < Len(Out)
                         /\ Out[a + 1].kind = "raw"
                         /\ Out[a + 1].inc = Out[a].inc
             /\ pc = "pf_returned" =>
                   Cardinality({a \in DOMAIN Out : Out[a].kind = "raw"}) = Len(recordedAt))
    /\ [][(pc \in {"pf_libs", "pf_libraw"}) =>
             (inIf' = inIf /\ skipLines' = skipLines)]_vars

\* A call with preprocessLibrary false has returned whose scan of the
\* source ended while lines were being skipped, and which copied a library
\* that holds a directive line or a constant.
C17_Witness ==
    /\ pc = "pf_returned"
    /\ ~preprocessLibrary
    /\ inIf
    /\ skipLines
    /\ \E a \in DOMAIN Out :
          /\ Out[a].kind = "raw"
          /\ \E n \in DOMAIN LibLinesOf(Out[a].inc) :
                \/ TextIsIf(LibLinesOf(Out[a].inc)[n])
                \/ ~NoKeyIn(LibLinesOf(Out[a].inc)[n])
          /\ Out[a].text # <<>>

-----------------------------------------------------------------------------
(* C18 *)

\* The place at which the call failed is an invalid lookup: an #IF line, of
\* the source or of a library, on a name that is no constant, or a recorded
\* #include of a library that is not in the registry.
FailedAtInvalidLookup ==
    /\ exc = "KeyError"
    /\ IF linePos <= Len(SourceLines)
       THEN IfOnUnknownName(SourceLines[linePos])
       ELSE /\ libIdx \in DOMAIN recordedAt
            /\ IF NameOnLine(SourceLines[recordedAt[libIdx]]) \notin DOMAIN libraries
               THEN TRUE
               ELSE /\ libPos \in DOMAIN LibLinesOf(libIdx)
                    /\ IfOnUnknownName(LibLinesOf(libIdx)[libPos])

\* An #IF line of the source is followed by no #ENDIF line.
UnterminatedIf ==
    \E h \in DOMAIN SourceLines :
        /\ TextIsIf(SourceLines[h])
        /\ \A e \in (h + 1)..Len(SourceLines) : ~TextIsEndif(SourceLines[e])

\* How far the call has come: the part of processFile it is in, the line of
\* the source, the library, the line of the library.
Stage ==
    IF pc = "pf_entry" THEN 0
    ELSE IF pc = "pf_scan" THEN 1
    ELSE IF pc \in {"pf_libs", "pf_libscan", "pf_libraw"} THEN 2
    ELSE 3

Position == <<Stage, linePos, libIdx, IF pc = "pf_libs" THEN 0 ELSE libPos>>

\* The order of positions: p comes before q.
ComesBefore(p, q) ==
    \E i \in 1..4 : p[i] < q[i] /\ \A j \in 1..(i - 1) : p[j] = q[j]

\* C18: a call of processFile fails only at an invalid lookup, and never for
\* an #ENDIF that is missing; every step takes it further through the
\* source and the libraries, of which there are finitely many lines, and
\* while it has not ended there is a line or a library left to go on with,
\* so that with all lookups valid it returns, also when the source or a
\* library ends while an #IF block is open; and when it has returned, its
\* source, its destination and the libraries are closed.
C18_TerminatesNormally ==
    /\ [](/\ pc = "crashed" => FailedAtInvalidLookup
          /\ pc = "pf_returned" => (exc = "none" /\ openFiles = {})
          /\ pc = "pf_scan" => linePos \in DOMAIN SourceLines
          /\ pc = "pf_libs" => libIdx <= Len(libNamesToInclude) + 1
          /\ pc = "pf_libscan" =>
                /\ libIdx \in DOMAIN recordedAt
                /\ libPos \in DOMAIN LibLinesOf(libIdx))
    /\ [][ComesBefore(Position, Position')]_vars

\* A call has returned normally, its files closed, whose source ends in an
\* open #IF block and whose included library was scanned with the block
\* still open.
C18_Witness ==
    /\ pc = "pf_returned"
    /\ exc = "none"
    /\ openFiles = {}
    /\ UnterminatedIf
    /\ inIf
    /\ recordedAt # <<>>
    /\ destFile \in DOMAIN disk

-----------------------------------------------------------------------------
(* C19 *)

\* The scan of the source is about to read an #include line.
AtSourceInclude == pc = "pf_scan" /\ TextIsInclude(CurLine)

\* C19: an #include line of the source read while lines are being skipped
\* changes nothing: the inclusion list, the destination and the flags stay
\* as they are and the call does not fail, whatever library the line names;
\* an #include line of the source read while lines are not being skipped
\* is recorded, its library's name added at the end of the inclusion list,
\* and is not written; and every marker in the destination is that of a
\* recorded line, so that a library named only on skipped lines has no
\* section.
C19_SkippedIncludeIgnored ==
    /\ [](Opened =>
             \A a \in DOMAIN Out :
                Out[a].kind = "marker" =>
                   /\ Out[a].inc \in DOMAIN libNamesToInclude
                   /\ Out[a].text = Marker(libNamesToInclude[Out[a].inc]))
    /\ [][(AtSourceInclude /\ linePos' # linePos) =>
             IF skipLines
             THEN /\ libNamesToInclude' = libNamesToInclude
                  /\ recordedAt' = recordedAt
                  /\ disk' = disk
                  /\ inIf' = inIf /\ skipLines' = skipLines
                  /\ exc' = "none"
             ELSE /\ libNamesToInclude'
                        = libNamesToInclude \o <<NameOnLine(CurLine)>>
                  /\ recordedAt' = recordedAt \o <<linePos>>
                  /\ disk' = disk
                  /\ inIf' = inIf /\ skipLines' = skipLines]_vars
    /\ [][AtSourceInclude => pc' # "crashed"]_vars

\* A call has returned normally that recorded one #include and, while
\* skipping, read an #include of a library that is not in the registry:
\* the destination holds one section.
C19_Witness ==
    /\ pc = "pf_returned"
    /\ exc = "none"
    /\ Len(recordedAt) = 1
    /\ \E k \in DOMAIN SourceLines :
          /\ IncludeOfUnknownLibrary(SourceLines[k])
          /\ InOpenIf(k)
    /\ Cardinality({a \in DOMAIN Out : Out[a].kind = "marker"}) = 1

-----------------------------------------------------------------------------
(* C20 *)

\* The call has failed while it scanned the source.
FailedInScan == pc = "crashed" /\ linePos <= Len(SourceLines)

\* The call has failed in phase two, at the lookup of a library's name.
FailedAtLibraryLookup ==
    /\ pc = "crashed"
    /\ linePos > Len(SourceLines)
    /\ libIdx \in DOMAIN recordedAt
    /\ NameOnLine(SourceLines[recordedAt[libIdx]]) \notin DOMAIN libraries

\* Line k of the source is no directive and stands outside every #IF block.
PlainLineOutsideIf(k) ==
    /\ ~TextIsInclude(SourceLines[k])
    /\ ~TextIsIf(SourceLines[k])
    /\ ~TextIsEndif(SourceLines[k])
    /\ ~InOpenIf(k)

\* C20: a failure during the scan of the source is never that of an
\* #include line: it happens at an #IF line, and a source that holds an #IF
\* on an unknown name fails there, at the first such line, whatever
\* #include lines stand before it; the failure for a recorded #include of
\* an unregistered library happens in phase two, when the whole source has
\* been read, and then the destination exists and holds all that was
\* written: the lines of the source, among them every plain line outside
\* the #IF blocks, and after them a section for each library recorded
\* before the failing one, and none for the failing one or a later one.
C20_UnknownLibraryFailsInPhaseTwo ==
    /\ FailedInScan =>
          /\ TextIsIf(SourceLines[linePos])
          /\ ~TextIsInclude(SourceLines[linePos])
    /\ (pc = "crashed" /\ \E j \in DOMAIN SourceLines : IfOnUnknownName(SourceLines[j])) =>
          /\ FailedInScan
          /\ IfOnUnknownName(SourceLines[linePos])
          /\ \A j \in 1..(linePos - 1) : ~IfOnUnknownName(SourceLines[j])
          /\ \A a \in DOMAIN Out : Out[a].kind = "src"
    /\ FailedAtLibraryLookup =>
          /\ exc = "KeyError"
          /\ destFile \in DOMAIN disk
          /\ Out = emitted
          /\ \A k \in DOMAIN SourceLines : PlainLineOutsideIf(k) => SourceLineWritten(k)
          /\ \A i \in DOMAIN recordedAt :
                (\E a \in DOMAIN Out : Out[a].kind = "marker" /\ Out[a].inc = i)
                   <=> i < libIdx
          /\ \A a \in DOMAIN Out : Out[a].inc < libIdx

\* A call has failed in phase two at the second recorded #include, which
\* names an unregistered library, after writing a line of the source and
\* the section of the first library with a line in it.
C20_Witness ==
    /\ FailedAtLibraryLookup
    /\ libIdx = 2
    /\ \E k \in DOMAIN SourceLines : PlainLineOutsideIf(k) /\ SourceLineWritten(k)
    /\ \E a \in DOMAIN Out : Out[a].kind = "lib" /\ Out[a].inc = 1

====
